---------------------------- MODULE Spec2Model ----------------------------
(***************************************************************************)
(* The constraint node of the constraint-based type checker                *)
(* (lib/Sema/Constraint.h) and the lazy map adapter of the standard        *)
(* library (Map.swift.gyb), as state machines.                             *)
(*                                                                         *)
(* Spec    : constraints are constructed and their accessors are called.   *)
(* MapSpec : a lazy map over a base collection is iterated and subscripted.*)
(*                                                                         *)
(* Assertions are modelled as enabled (a debug build): a call whose        *)
(* assertion fails produces no value and no object, which the model        *)
(* records as last.fail.                                                   *)
(***************************************************************************)
EXTENDS Integers, Sequences, FiniteSets

VARIABLES constraints, given, last, map, iter, out, sub, reads, calls

vars == <<constraints, given, last, map, iter, out, sub, reads, calls>>
conVars == <<constraints, given, last>>
mapVars == <<map, iter, out, sub, reads, calls>>

(***************************************************************************)
(* Bounds of the model.                                                    *)
(***************************************************************************)
MaxConstraints == 1
MaxNested == 2
MaxLen == 3
MaxExtraNext == 2
MaxSubscripts == 2

(***************************************************************************)
(* enum class ConstraintKind, in declaration order.                        *)
(***************************************************************************)
ConstraintKind ==
  << "Bind", "Equal", "TrivialSubtype", "Subtype", "Conversion",
     "Construction", "ConformsTo", "ApplicableFunction", "BindOverload",
     "ValueMember", "TypeMember", "Archetype", "Class",
     "DynamicLookupValue", "Conjunction", "Disjunction" >>

Kinds == { ConstraintKind[i] : i \in 1..Len(ConstraintKind) }

(***************************************************************************)
(* enum class ConstraintClassification.                                    *)
(***************************************************************************)
ConstraintClassification ==
  { "Relational", "Member", "TypeProperty", "Conjunction", "Disjunction" }

GroupKinds == { "Conjunction", "Disjunction" }
MemberKinds == { "ValueMember", "TypeMember" }

(***************************************************************************)
(* The values the payload fields range over.  A Type, an Identifier, an    *)
(* OverloadChoice, a ConstraintLocator* and a Constraint* are opaque to    *)
(* the class: it stores and returns them.                                  *)
(***************************************************************************)
Types == { "T0", "T1" }
EmptyIdentifier == ""
Identifiers == { EmptyIdentifier, "foo" }
Choices == { "choiceA", "choiceB" }
NullLocator == "nullptr"
Locators == { NullLocator, "L1" }
ConstraintPtrs == { "c1", "c2" }

\* The content of a union arm that no constructor wrote.
Unwritten == "unwritten"
\* What the bytes of an OverloadChoice read as when taken for a Type.
ReinterpretedTypes == Types \cup { "garbage" }

NestedLists ==
  UNION { [1..n -> ConstraintPtrs] : n \in 0..MaxNested }


(***************************************************************************)
(* class Constraint: the kind, the payload union and the locator.  The     *)
(* three arms of the union share storage; an arm no constructor wrote      *)
(* holds Unwritten, except that Types.First and Overload.First are the     *)
(* common initial member of their structs and so name the same value, and  *)
(* that Types.Second of an overload-binding constraint lies over the       *)
(* bytes of Overload.Choice and reads as one of ReinterpretedTypes.        *)
(***************************************************************************)
Constraint(kind, types, nested, overload, locator) ==
  [ Kind |-> kind, Types |-> types, Nested |-> nested,
    Overload |-> overload, Locator |-> locator ]

\* A construction yields <<c>>, or << >> when its assertion fails.
NoConstraint == << >>

Reverse(l) == [ i \in 1..Len(l) |-> l[Len(l) + 1 - i] ]

\* GroupConstraint with the children stored back to front.
GroupConstraint_Reversed(kind, disjunction, locator) ==
  IF kind \in GroupKinds
    THEN << Constraint(kind,
                       [First |-> Unwritten, Second |-> Unwritten,
                        Member |-> Unwritten],
                       Reverse(disjunction),
                       [First |-> Unwritten, Choice |-> Unwritten],
                       locator) >>
    ELSE NoConstraint

\* Constraint(ConstraintKind, ArrayRef<Constraint *>, ConstraintLocator *)
GroupConstraint(kind, disjunction, locator) ==
  IF kind \in GroupKinds
    THEN << Constraint(kind,
                       [First |-> Unwritten, Second |-> Unwritten,
                        Member |-> Unwritten],
                       disjunction,
                       [First |-> Unwritten, Choice |-> Unwritten],
                       locator) >>
    ELSE NoConstraint

\* Constraint(Type, OverloadChoice, ConstraintLocator *); `second` is what
\* the bytes of the choice read as through Types.Second.
OverloadConstraint(type, choice, locator, second) ==
  << Constraint("BindOverload",
                [First |-> type, Second |-> second, Member |-> Unwritten],
                << >>,
                [First |-> type, Choice |-> choice],
                locator) >>

\* Constraint(ConstraintKind, Type, Type, Identifier, ConstraintLocator *),
\* declared in the header and defined elsewhere: the construction contract
\* of the atomic kinds.
RelationalConstraint(kind, first, second, member, locator) ==
  IF /\ locator # NullLocator
     /\ kind \notin GroupKinds \cup {"BindOverload"}
     /\ (kind \in MemberKinds) <=> (member # EmptyIdentifier)
    THEN << Constraint(kind,
                       [First |-> first, Second |-> second,
                        Member |-> member],
                       << >>,
                       [First |-> first, Choice |-> Unwritten],
                       locator) >>
    ELSE NoConstraint

\* Constraint::createConjunction, declared in the header and defined
\* elsewhere: a group is built over a non-empty list, with a locator.
createConjunction(cs, locator) ==
  IF cs # << >> /\ locator # NullLocator
    THEN GroupConstraint("Conjunction", cs, locator)
    ELSE NoConstraint

\* createDisjunction without the check of the list.
createDisjunction_AcceptsEmpty(cs, locator) ==
  IF locator # NullLocator
    THEN GroupConstraint("Disjunction", cs, locator)
    ELSE NoConstraint

\* Constraint::createDisjunction, likewise.
createDisjunction(cs, locator) ==
  IF cs # << >> /\ locator # NullLocator
    THEN GroupConstraint("Disjunction", cs, locator)
    ELSE NoConstraint

(***************************************************************************)
(* The result of a call: a value, a list, a flag, or a failed assertion.   *)
(***************************************************************************)
Ret(v) == [fail |-> FALSE, val |-> v, list |-> << >>, flag |-> FALSE]
RetList(l) == [fail |-> FALSE, val |-> "", list |-> l, flag |-> FALSE]
RetFlag(b) == [fail |-> FALSE, val |-> "", list |-> << >>, flag |-> b]
AssertFail == [fail |-> TRUE, val |-> "", list |-> << >>, flag |-> FALSE]

(***************************************************************************)
(* The accessors.                                                          *)
(***************************************************************************)
getKind(c) == Ret(c.Kind)

getClassification(c) ==
  CASE c.Kind \in { "Bind", "Equal", "TrivialSubtype", "Subtype",
                    "Conversion", "Construction", "ConformsTo",
                    "ApplicableFunction", "BindOverload" }
         -> Ret("Relational")
    [] c.Kind \in { "ValueMember", "TypeMember" }
         -> Ret("Member")
    [] c.Kind \in { "Archetype", "Class", "DynamicLookupValue" }
         -> Ret("TypeProperty")
    [] c.Kind = "Conjunction"
         -> Ret("Disjunction")
    [] c.Kind = "Disjunction"
         -> Ret("Disjunction")

\* getFirstType returning the second type of a relational payload.
getFirstType_ReadsSecond(c) ==
  IF ~(c.Kind # "Disjunction" /\ c.Kind # "Conjunction")
    THEN AssertFail
    ELSE IF c.Kind = "BindOverload"
           THEN Ret(c.Overload.First)
           ELSE Ret(c.Types.Second)

getFirstType(c) ==
  IF ~(c.Kind # "Disjunction" /\ c.Kind # "Conjunction")
    THEN AssertFail
    ELSE IF c.Kind = "BindOverload"
           THEN Ret(c.Overload.First)
           ELSE Ret(c.Types.First)

getSecondType(c) ==
  IF ~(c.Kind # "Disjunction" /\ c.Kind # "Conjunction")
    THEN AssertFail
    ELSE Ret(c.Types.Second)

getMember(c) ==
  IF ~(c.Kind = "ValueMember" \/ c.Kind = "TypeMember")
    THEN AssertFail
    ELSE Ret(c.Types.Member)

\* hasMember testing one of the two member kinds only.
hasMember_ValueOnly(kind) ==
  RetFlag(kind = "ValueMember")

hasMember(kind) ==
  RetFlag(kind = "ValueMember" \/ kind = "TypeMember")

getNestedConstraints(c) ==
  IF ~(c.Kind = "Conjunction" \/ c.Kind = "Disjunction")
    THEN AssertFail
    ELSE RetList(c.Nested)

getOverloadChoice(c) ==
  IF ~(c.Kind = "BindOverload")
    THEN AssertFail
    ELSE Ret(c.Overload.Choice)

getLocator(c) == Ret(c.Locator)

(***************************************************************************)
(* The state of the constraint machine.  constraints holds the objects     *)
(* constructed so far, in order; given[i] holds the arguments              *)
(* constraints[i] was constructed from; last holds the latest call, its    *)
(* arguments and its result.                                               *)
(***************************************************************************)
NoArgs ==
  [ kind |-> "", first |-> "", second |-> "", member |-> "",
    nested |-> << >>, choice |-> "", locator |-> "" ]

Call(op, idx, kind, args, r) ==
  [ op |-> op, idx |-> idx, kind |-> kind, args |-> args,
    fail |-> r.fail, val |-> r.val, list |-> r.list, flag |-> r.flag ]

ConstructorOps ==
  { "Constraint(kind,first,second,member,locator)",
    "Constraint(type,choice,locator)",
    "createConjunction", "createDisjunction" }

AccessorOps ==
  { "getKind", "getClassification", "getFirstType", "getSecondType",
    "getMember", "getNestedConstraints", "getOverloadChoice",
    "getLocator" }

\* A construction: the object, if any, joins the constraints.
Construct(op, args, r) ==
  /\ constraints' = constraints \o r
  /\ given' = IF r = NoConstraint THEN given ELSE Append(given, args)
  /\ last' = Call(op, IF r = NoConstraint THEN 0 ELSE Len(constraints) + 1,
                  args.kind, args,
                  IF r = NoConstraint THEN AssertFail ELSE Ret(""))
  /\ UNCHANGED mapVars

NewRelational ==
  /\ Len(constraints) < MaxConstraints
  /\ \E kind \in Kinds, first \in Types, second \in Types,
        member \in Identifiers, locator \in Locators :
       Construct("Constraint(kind,first,second,member,locator)",
                 [NoArgs EXCEPT !.kind = kind, !.first = first,
                                !.second = second, !.member = member,
                                !.locator = locator],
                 RelationalConstraint(kind, first, second, member, locator))

NewOverload ==
  /\ Len(constraints) < MaxConstraints
  /\ \E type \in Types, choice \in Choices, locator \in Locators,
        second \in ReinterpretedTypes :
       Construct("Constraint(type,choice,locator)",
                 [NoArgs EXCEPT !.kind = "BindOverload", !.first = type,
                                !.choice = choice, !.locator = locator],
                 OverloadConstraint(type, choice, locator, second))

NewConjunction ==
  /\ Len(constraints) < MaxConstraints
  /\ \E cs \in NestedLists, locator \in Locators :
       Construct("createConjunction",
                 [NoArgs EXCEPT !.kind = "Conjunction", !.nested = cs,
                                !.locator = locator],
                 createConjunction(cs, locator))

NewDisjunction ==
  /\ Len(constraints) < MaxConstraints
  /\ \E cs \in NestedLists, locator \in Locators :
       Construct("createDisjunction",
                 [NoArgs EXCEPT !.kind = "Disjunction", !.nested = cs,
                                !.locator = locator],
                 createDisjunction(cs, locator))

\* A call of a const member function on constraints[i].
Access(op, i, r) ==
  /\ last' = Call(op, i, constraints[i].Kind, NoArgs, r)
  /\ UNCHANGED <<constraints, given>>
  /\ UNCHANGED mapVars

CallGetKind(i) ==
  /\ i \in 1..Len(constraints)
  /\ Access("getKind", i, getKind(constraints[i]))

CallGetClassification(i) ==
  /\ i \in 1..Len(constraints)
  /\ Access("getClassification", i, getClassification(constraints[i]))

\* getFirstType as a non-const function that moves the type out.
CallGetFirstType_MovesOut(i) ==
  /\ i \in 1..Len(constraints)
  /\ last' = Call("getFirstType", i, constraints[i].Kind, NoArgs,
                  getFirstType(constraints[i]))
  /\ constraints' = [constraints EXCEPT ![i].Types.First = Unwritten,
                                        ![i].Overload.First = Unwritten]
  /\ UNCHANGED given
  /\ UNCHANGED mapVars

CallGetFirstType(i) ==
  /\ i \in 1..Len(constraints)
  /\ Access("getFirstType", i, getFirstType(constraints[i]))

CallGetSecondType(i) ==
  /\ i \in 1..Len(constraints)
  /\ Access("getSecondType", i, getSecondType(constraints[i]))

CallGetMember(i) ==
  /\ i \in 1..Len(constraints)
  /\ Access("getMember", i, getMember(constraints[i]))

CallGetNestedConstraints(i) ==
  /\ i \in 1..Len(constraints)
  /\ Access("getNestedConstraints", i, getNestedConstraints(constraints[i]))

CallGetOverloadChoice(i) ==
  /\ i \in 1..Len(constraints)
  /\ Access("getOverloadChoice", i, getOverloadChoice(constraints[i]))

CallGetLocator(i) ==
  /\ i \in 1..Len(constraints)
  /\ Access("getLocator", i, getLocator(constraints[i]))

\* The static member function, on any kind.
CallHasMember(kind) ==
  /\ last' = Call("hasMember", 0, kind, NoArgs, hasMember(kind))
  /\ UNCHANGED <<constraints, given>>
  /\ UNCHANGED mapVars

ConInit ==
  /\ constraints = << >>
  /\ given = << >>
  /\ last = Call("none", 0, "", NoArgs, Ret(""))

ConNext ==
  \/ NewRelational
  \/ NewOverload
  \/ NewConjunction
  \/ NewDisjunction
  \/ \E i \in 1..MaxConstraints : CallGetKind(i)
  \/ \E i \in 1..MaxConstraints : CallGetClassification(i)
  \/ \E i \in 1..MaxConstraints : CallGetFirstType(i)
  \/ \E i \in 1..MaxConstraints : CallGetSecondType(i)
  \/ \E i \in 1..MaxConstraints : CallGetMember(i)
  \/ \E i \in 1..MaxConstraints : CallGetNestedConstraints(i)
  \/ \E i \in 1..MaxConstraints : CallGetOverloadChoice(i)
  \/ \E i \in 1..MaxConstraints : CallGetLocator(i)
  \/ \E kind \in Kinds : CallHasMember(kind)

(***************************************************************************)
(* The lazy map.  An Optional is << >> (nil) or <<v>>.  The base is a      *)
(* collection of MaxLen elements at most, and its iterator walks it once:  *)
(* it conforms to IteratorProtocol, so it keeps returning nil at the end.  *)
(* A transform is a closure; the model counts its invocations.             *)
(***************************************************************************)
None == << >>
Some(v) == << v >>

Elements == 0..2
Transforms == { "succ", "double", "parity" }

Apply(transform, x) ==
  CASE transform = "succ" -> x + 1
    [] transform = "double" -> 2 * x
    [] transform = "parity" -> x % 2

Bases == UNION { [1..n -> Elements] : n \in 0..MaxLen }

\* Base.makeIterator() and Base.Iterator.next() of a collection.
BaseMakeIterator(base) == [elems |-> base, pos |-> 0]

BaseNext(it) ==
  IF it.pos = Len(it.elems)
    THEN [result |-> None, it |-> it]
    ELSE [result |-> Some(it.elems[it.pos + 1]),
          it |-> [it EXCEPT !.pos = it.pos + 1]]

\* Optional.map(_:): the transform runs only on a value.
OptionalMap(opt, transform) ==
  IF opt = None
    THEN [result |-> None, applied |-> 0]
    ELSE [result |-> Some(Apply(transform, opt[1])), applied |-> 1]

\* LazyMapSequence.init(_base:transform:), LazyMapCollection.init
LazyMap(base, transform) == [_base |-> base, _transform |-> transform]

\* makeIterator mapping the whole base eagerly.
makeIterator_Eager(self) ==
  [ iterator |-> [_base |-> BaseMakeIterator(self._base),
                  _transform |-> self._transform],
    applied |-> Len(self._base) ]

\* LazyMapSequence.makeIterator(), LazyMapCollection.makeIterator()
makeIterator(self) ==
  [ iterator |-> [_base |-> BaseMakeIterator(self._base),
                  _transform |-> self._transform],
    applied |-> 0 ]

\* next() starting the base over once it has ended.
next_Restarts(self) ==
  LET b == BaseNext(self._base)
      m == OptionalMap(b.result, self._transform)
  IN  [ result |-> m.result, applied |-> m.applied, base |-> b.result,
        self |-> [self EXCEPT !._base =
                    IF b.result = None THEN [b.it EXCEPT !.pos = 0]
                                       ELSE b.it] ]

\* LazyMapIterator.next(): return _base.next().map(_transform)
next(self) ==
  LET b == BaseNext(self._base)
      m == OptionalMap(b.result, self._transform)
  IN  [ result |-> m.result, applied |-> m.applied, base |-> b.result,
        self |-> [self EXCEPT !._base = b.it] ]

\* LazyMapCollection.subscript(position:): _transform(_base[position])
subscript(self, position) ==
  [ result |-> Apply(self._transform, self._base[position]), applied |-> 1 ]

(***************************************************************************)
(* The state of the lazy map machine.  map is the lazy map; iter holds     *)
(* the iterator once it is made; out logs every next(): what the base      *)
(* iterator returned and what next() returned; sub is the latest           *)
(* subscript read; reads counts the elements read and calls the            *)
(* invocations of the transform.                                           *)
(***************************************************************************)
MapInit ==
  /\ \E base \in Bases, transform \in Transforms :
       map = LazyMap(base, transform)
  /\ iter = << >>
  /\ out = << >>
  /\ sub = << >>
  /\ reads = 0
  /\ calls = 0

CallMakeIterator ==
  /\ iter = << >>
  /\ LET r == makeIterator(map)
     IN  /\ iter' = << r.iterator >>
         /\ calls' = calls + r.applied
  /\ UNCHANGED <<map, out, sub, reads>>
  /\ UNCHANGED conVars

CallNext ==
  /\ iter # << >>
  /\ Len(out) < Len(map._base) + MaxExtraNext
  /\ LET r == next(iter[1])
     IN  /\ iter' = << r.self >>
         /\ out' = Append(out, [base |-> r.base, result |-> r.result])
         /\ reads' = reads + (IF r.base = None THEN 0 ELSE 1)
         /\ calls' = calls + r.applied
  /\ UNCHANGED <<map, sub>>
  /\ UNCHANGED conVars

CallSubscript ==
  /\ reads - Len(SelectSeq(out, LAMBDA e : e.base # None)) < MaxSubscripts
  /\ \E position \in 1..Len(map._base) :
       LET r == subscript(map, position)
       IN  /\ sub' = << [position |-> position, result |-> r.result] >>
           /\ reads' = reads + 1
           /\ calls' = calls + r.applied
  /\ UNCHANGED <<map, iter, out>>
  /\ UNCHANGED conVars

MapNext ==
  \/ CallMakeIterator
  \/ CallNext
  \/ CallSubscript

(***************************************************************************)
(* The specifications.                                                     *)
(***************************************************************************)
Init ==
  /\ ConInit
  /\ map = LazyMap(<< >>, "succ")
  /\ iter = << >>
  /\ out = << >>
  /\ sub = << >>
  /\ reads = 0
  /\ calls = 0

Next == ConNext

Spec == Init /\ [][Next]_vars

MapSpecInit == MapInit /\ ConInit

MapSpec == MapSpecInit /\ [][MapNext]_vars

(***************************************************************************)
(* Properties of the constraint machine (Spec).                            *)
(***************************************************************************)
\* The classification the table of kinds assigns to each kind.
TableClassification(kind) ==
  CASE kind \in { "Bind", "Equal", "TrivialSubtype", "Subtype",
                  "Conversion", "Construction", "ConformsTo",
                  "ApplicableFunction", "BindOverload" } -> "Relational"
    [] kind \in { "ValueMember", "TypeMember" } -> "Member"
    [] kind \in { "Archetype", "Class", "DynamicLookupValue" }
         -> "TypeProperty"
    [] kind = "Conjunction" -> "Conjunction"
    [] kind = "Disjunction" -> "Disjunction"

\* C1: getClassification() on a constraint of kind k returns the
\* classification the table assigns to k, whatever the payload and the
\* locator.
ClassificationMatchesTable ==
  last.op = "getClassification"
    => ~last.fail /\ last.val = TableClassification(last.kind)

\* C2: every payload accessor fails its assertion on a constraint whose
\* kind does not support it: getFirstType on the group kinds,
\* getSecondType on the group kinds and on BindOverload, getMember on all
\* but the member kinds, getOverloadChoice on all but BindOverload,
\* getNestedConstraints on all but the group kinds.
AccessorsFailOnUnsupportedKinds ==
  /\ last.op = "getFirstType" /\ last.kind \in GroupKinds => last.fail
  /\ last.op = "getSecondType"
       /\ last.kind \in GroupKinds \cup {"BindOverload"} => last.fail
  /\ last.op = "getMember" /\ last.kind \notin MemberKinds => last.fail
  /\ last.op = "getOverloadChoice" /\ last.kind # "BindOverload"
       => last.fail
  /\ last.op = "getNestedConstraints" /\ last.kind \notin GroupKinds
       => last.fail

GroupOps == { "createConjunction", "createDisjunction" }

\* C3: creating a conjunction or a disjunction over an empty list fails and
\* adds no constraint, and every group constraint that exists has at least
\* one nested constraint.
NoEmptyGroup ==
  /\ last.op \in GroupOps /\ last.args.nested = << >>
       => last.fail /\ last.idx = 0
  /\ Len(given) = Len(constraints)
  /\ \A i \in 1..Len(constraints) :
       constraints[i].Kind \in GroupKinds
         => /\ ~getNestedConstraints(constraints[i]).fail
            /\ Len(getNestedConstraints(constraints[i]).list) >= 1

\* C3 witness: a creation over the empty list, with a locator, has failed.
EmptyGroupRejected ==
  /\ last.op = "createDisjunction"
  /\ last.args.nested = << >>
  /\ last.args.locator # NullLocator
  /\ last.fail
  /\ constraints = << >>

\* C4: a group created over a non-empty list L (and a locator) exists, has
\* the requested kind, and getNestedConstraints() returns L: the same
\* elements, as many, in the same order.
GroupRoundTrip ==
  /\ last.op \in GroupOps /\ last.args.nested # << >>
       /\ last.args.locator # NullLocator
       => /\ ~last.fail
          /\ last.idx = Len(constraints)
          /\ given[last.idx] = last.args
  /\ \A i \in 1..Len(constraints) :
       given[i].kind \in GroupKinds
         => /\ getKind(constraints[i]) = Ret(given[i].kind)
            /\ getNestedConstraints(constraints[i])
                 = RetList(given[i].nested)
  /\ last.op = "getNestedConstraints" /\ last.kind \in GroupKinds
       => ~last.fail /\ last.list = given[last.idx].nested

\* C4 witness: getNestedConstraints() has returned two different children.
TwoChildrenRead ==
  /\ last.op = "getNestedConstraints"
  /\ ~last.fail
  /\ Len(last.list) = 2
  /\ last.list[1] # last.list[2]

\* C5: every constraint that exists has a non-null locator, and a
\* construction given a null locator fails.
LocatorNeverNull ==
  /\ \A i \in 1..Len(constraints) :
       getLocator(constraints[i]).val # NullLocator
  /\ last.op \in ConstructorOps /\ last.args.locator = NullLocator
       => last.fail
  /\ last.op = "getLocator" => last.val # NullLocator

\* C6: a constraint, once constructed, keeps its kind, payload and locator
\* in every step; a call of an accessor, failing or not, leaves the
\* constraints as they were; and a call repeated right after itself returns
\* the same result.
AccessorsDoNotMutate ==
  [][ /\ Len(constraints') >= Len(constraints)
      /\ \A i \in 1..Len(constraints) : constraints'[i] = constraints[i]
      /\ last'.op \in AccessorOps \cup {"hasMember"}
           => /\ constraints' = constraints
              /\ (last.op = last'.op /\ last.idx = last'.idx
                    /\ last.kind = last'.kind) => last' = last ]_vars

\* C6 witness: an accessor has failed its assertion on a constraint that is
\* still what it was constructed as.
FailedAccessorCall ==
  /\ last.op = "getNestedConstraints"
  /\ last.fail
  /\ constraints[last.idx].Kind = "ValueMember"
  /\ constraints[last.idx].Types.Member = given[last.idx].member

\* C9: an overload-binding constraint returns the type, the choice and the
\* locator it was built from, and getFirstType() succeeds on every kind
\* but the group kinds and returns the first type given at construction.
OverloadRoundTrip ==
  /\ \A i \in 1..Len(constraints) :
       given[i].kind = "BindOverload"
         => /\ getKind(constraints[i]) = Ret("BindOverload")
            /\ getFirstType(constraints[i]) = Ret(given[i].first)
            /\ getOverloadChoice(constraints[i]) = Ret(given[i].choice)
            /\ getLocator(constraints[i]) = Ret(given[i].locator)
  /\ \A i \in 1..Len(constraints) :
       constraints[i].Kind \notin GroupKinds
         => getFirstType(constraints[i]) = Ret(given[i].first)
  /\ last.op = "getFirstType" /\ last.kind \notin GroupKinds
       => ~last.fail /\ last.val = given[last.idx].first
  /\ last.op = "getOverloadChoice" /\ last.kind = "BindOverload"
       => ~last.fail /\ last.val = given[last.idx].choice

\* C9 witness: getFirstType() has returned the type of an overload-binding
\* constraint whose second-type bytes read as another type.
OverloadFirstTypeRead ==
  /\ last.op = "getFirstType"
  /\ last.kind = "BindOverload"
  /\ last.val = "T1"
  /\ constraints[last.idx].Types.Second = "T0"

\* C10: for every kind, hasMember(k), k being ValueMember or TypeMember,
\* the classification of a constraint of kind k being Member, and
\* getMember() not failing on it, all agree.
MemberNotionsAgree ==
  /\ last.op = "hasMember" => (last.flag <=> last.kind \in MemberKinds)
  /\ last.op = "getMember" => (~last.fail <=> hasMember(last.kind).flag)
  /\ last.op = "getClassification"
       => (last.val = "Member" <=> hasMember(last.kind).flag)
  /\ \A i \in 1..Len(constraints) :
       LET c == constraints[i]
       IN  /\ hasMember(c.Kind).flag <=> c.Kind \in MemberKinds
           /\ hasMember(c.Kind).flag
                <=> getClassification(c) = Ret("Member")
           /\ hasMember(c.Kind).flag <=> ~getMember(c).fail

\* C10 witness: getMember() has returned the name of a TypeMember
\* constraint.
MemberRead ==
  /\ last.op = "getMember"
  /\ last.kind = "TypeMember"
  /\ ~last.fail
  /\ last.val = "foo"

(***************************************************************************)
(* Properties of the lazy map machine (MapSpec).                           *)
(***************************************************************************)
Produced == SelectSeq(out, LAMBDA e : e.result # None)

\* C7: once next() has returned nil, every later next() returns nil.
NextStickyAtEnd ==
  \A i \in 1..Len(out) : \A j \in 1..Len(out) :
    i < j /\ out[i].result = None => out[j].result = None

\* C7 witness: next() has returned nil twice after two elements.
NilTwice ==
  /\ Len(out) = 4
  /\ out[2].result # None
  /\ out[3].result = None
  /\ out[4].result = None

\* C8: the k-th non-nil result of next() is the transform of the k-th
\* element of the base; next() returns nil exactly when the base iterator
\* does, so a finished iteration has produced as many elements as the base
\* holds; a subscript read is the transform of the base element at that
\* position; and the transform has run once per element read, never at
\* construction.
MapYieldsTransformedBase ==
  /\ \A k \in 1..Len(out) :
       (out[k].result = None) <=> (out[k].base = None)
  /\ Len(Produced) <= Len(map._base)
  /\ \A k \in 1..Len(Produced) :
       Produced[k].result = Some(Apply(map._transform, map._base[k]))
  /\ (\E k \in 1..Len(out) : out[k].result = None)
       => Len(Produced) = Len(map._base)
  /\ sub # << >>
       => sub[1].result = Apply(map._transform, map._base[sub[1].position])
  /\ calls = reads
  /\ iter = << >> /\ sub = << >> => calls = 0

\* C8 witness: a base of three different elements has been iterated to the
\* end under a transform that changes them, and subscripted.
IteratedToEnd ==
  /\ map._base = << 2, 0, 1 >>
  /\ map._transform = "double"
  /\ Len(Produced) = 3
  /\ out[Len(out)].result = None
  /\ sub # << >>
  /\ calls = 4

=============================================================================
